---- MODULE Spec2Model ----
(***************************************************************************)
(* The pipelined task-execution engine of wpull/pipeline/pipeline.py:      *)
(* ItemQueue, Worker, Producer and Pipeline, run as cooperative asyncio    *)
(* tasks on one event loop.                                                *)
(*                                                                         *)
(* One action is one run of a task from the point where it resumes to the  *)
(* next await that can suspend it.  The awaits that can suspend are:       *)
(* ItemSource.get_item, ItemTask.process, Queue.get on an empty queue,     *)
(* Condition.wait, Event.wait on a cleared event, asyncio.wait and the     *)
(* await of a task that is not done.  Condition.acquire never suspends     *)
(* here (the lock is never held across a suspension), so the lock has no   *)
(* state of its own.  The only caller of put_item and wait_for_worker is   *)
(* the Producer, so the condition has at most one waiter.                  *)
(***************************************************************************)
EXTENDS Integers, FiniteSets, Sequences, Bags, TLC

\* ------------------------------------------------------------- bounds
MaxConc == 2      \* largest concurrency the application asks for
MaxItems == 2     \* items the item source has to give
MaxSets == 2      \* calls of the concurrency setter
MaxStops == 1     \* calls of Pipeline.stop by the application
NumTasks == 2     \* length of the longest task chain
NumPipelines == 2 \* Pipelines of the PipelineSeries
MaxRestarts == 1  \* calls of process() on a Pipeline that has stopped
MaxPolls == 1     \* counted iterations of a control loop that never suspends
NumPaths == 2     \* paths the ResourceMonitor watches
MaxFree == 1      \* largest level of a resource, and largest minimum
Permits == 1      \* value the resource-monitor semaphore is created with

\* ---------------------------------------------------------- constants
POISON_PILL == 0
ITEM_PRIORITY == 1
POISON_PRIORITY == 0

VARIABLES
    state,          \* Pipeline._state
    concurrency,    \* Pipeline._concurrency
    unpaused,       \* Pipeline._unpaused_event is set
    workers,        \* Pipeline._worker_tasks: the bag of the tasks of Worker.process
    mainPc,         \* where the caller of Pipeline.process is
    mainWoken,      \* the future of its Event.wait has been resolved
    mainError,      \* what Pipeline.process raised
    polls,          \* iterations of the control loop made without suspending
    prodPc,         \* where Pipeline._producer_task is
    prodRunning,    \* Producer._running
    prodItem,       \* the item a suspended put_item holds
    prodNotified,   \* the Producer's Condition.wait has been notified
    srcNext,        \* items the item source has yielded
    queue,          \* ItemQueue._queue: set of (priority, sequence, item)
    entry_count,    \* ItemQueue._entry_count
    unfinished,     \* ItemQueue._unfinished_items
    enqueued,       \* history: normal items enqueued by put_item
    completed,      \* history: item_done calls
    aborted,        \* history: items whose handler chain raised
    nSets,          \* history: calls of the concurrency setter
    nStops,         \* history: calls of Pipeline.stop by the application
    valueError,     \* the concurrency setter raised ValueError
    seriesConc,     \* PipelineSeries._concurrency
    seriesMembers,  \* PipelineSeries._concurrency_pipelines
    seriesPipes,    \* _concurrency of each Pipeline of PipelineSeries._pipelines
    seriesError,    \* the PipelineSeries concurrency setter raised ValueError
    restarts,       \* calls of process() made after an earlier call returned
    numTasks,       \* len(self._tasks), the task chain given to the Pipeline
    resmonPresent,  \* factory.get('ResourceMonitor') returns a ResourceMonitor
    minDisk,        \* ResourceMonitor._min_disk
    minMemory,      \* ResourceMonitor._min_memory
    diskFree,       \* psutil.disk_usage(path).free of each of _resource_paths
    memFree,        \* psutil.virtual_memory().available
    semValue,       \* value of app_session.resource_monitor_semaphore
    sleepPc,        \* where each call of ResmonSleepTask.process is
    useLog          \* use_log of each call of ResmonSleepTask.process

pipeVars == <<state, concurrency, unpaused>>
mainVars == <<mainPc, mainWoken, mainError, polls>>
prodVars == <<prodPc, prodRunning, prodItem, prodNotified, srcNext>>
queueVars == <<queue, entry_count, unfinished>>
histVars == <<enqueued, completed, aborted, nSets, nStops, valueError>>
engineVars ==
    <<pipeVars, workers, mainVars, prodVars, queueVars, histVars, restarts, numTasks>>
seriesVars == <<seriesConc, seriesMembers, seriesPipes, seriesError>>
resmonVars ==
    <<resmonPresent, minDisk, minMemory, diskFree, memFree, semValue, sleepPc, useLog>>
vars == <<engineVars, seriesVars, resmonVars>>

\* ---------------------------------------------------------- ItemQueue
Entry(p, s, i) == [prio |-> p, seq |-> s, item |-> i]

\* Tuple comparison of (priority, entry_count, item): entry_count is unique.
EntryLess(e, f) == e.prio < f.prio \/ (e.prio = f.prio /\ e.seq < f.seq)

\* (a get() that serves the oldest entry whatever its priority)
MinEntryFifo(q) == CHOOSE e \in q : \A f \in q \ {e} : e.seq < f.seq

\* What asyncio.PriorityQueue.get returns: the least entry of the heap.
MinEntry(q) == CHOOSE e \in q : \A f \in q \ {e} : EntryLess(e, f)

\* (a get() that returns the least entry and leaves it in the queue)
QueueAfterGetKept(q, e) == q

\* asyncio.PriorityQueue.get removes the entry it returns
QueueAfterGet(q, e) == q \ {e}

\* (a put_item that lets one entry be pending)
QueueFullAboveOne(q) == Cardinality(q) > 1

\* (a put_item that waits only while a poison pill is pending)
QueueFullOfPills(q) == \E e \in q : e.prio = POISON_PRIORITY

\* put_item's loop condition: self._queue.qsize() > 0
QueueFull(q) == Cardinality(q) > 0

\* (a put_item that does not advance the entry counter)
PutItemNowaitSameCount(Q, item) ==
    [q |-> Q.q \cup {Entry(ITEM_PRIORITY, Q.ec, item)}, ec |-> Q.ec]

\* put_item past its loop, on the pair (queue, entry_count)
PutItemNowait(Q, item) ==
    [q |-> Q.q \cup {Entry(ITEM_PRIORITY, Q.ec, item)}, ec |-> Q.ec + 1]

\* (a put_item that does not count the item)
UnfinishedAfterPutUncounted(n) == n

\* put_item: self._unfinished_items += 1
UnfinishedAfterPut(n) == n + 1

\* (a put of a poison pill that gives up when entries are pending)
PutPoisonWhenEmpty(Q) ==
    IF Q.q # {}
    THEN Q
    ELSE [q |-> Q.q \cup {Entry(POISON_PRIORITY, Q.ec, POISON_PILL)}, ec |-> Q.ec + 1]

\* put_poison_nowait: put_nowait of (POISON_PRIORITY, entry_count, POISON_PILL)
PutPoisonNowait(Q) ==
    [q |-> Q.q \cup {Entry(POISON_PRIORITY, Q.ec, POISON_PILL)}, ec |-> Q.ec + 1]

RECURSIVE PutPoisons(_, _)
PutPoisons(Q, n) == IF n <= 0 THEN Q ELSE PutPoisons(PutPoisonNowait(Q), n - 1)

\* (an item_done that leaves the counter alone)
UnfinishedAfterDoneKept(n) == n

\* item_done: self._unfinished_items -= 1
UnfinishedAfterDone(n) == n - 1

\* (a Producer that never finds the crawl exhausted)
ExhaustedNever(n) == FALSE

\* (a Producer that stops whenever the source yields nothing)
ExhaustedAlways(n) == TRUE

\* Producer.process: not item and self._item_queue.unfinished_items == 0
Exhausted(n) == n = 0

\* (a Producer whose loop does not look at the flag)
ProducerLoopsAlways(running) == TRUE

\* Producer.process: while self._running
ProducerLoops(running) == running

\* (a notification that is kept for a caller that waits later)
NotifyAllSticky(ppc, notified) == TRUE

\* (a notification that only a blocked put_item hears)
NotifyAllPutOnly(ppc, notified) == notified \/ ppc = "put_wait"

\* Condition.notify_all: the Producer, if it waits, is scheduled to resume.
NotifyAll(ppc, notified) == notified \/ ppc \in {"put_wait", "wfw_wait"}

\* ------------------------------------------------------------- Worker
\* The tasks of a Pipeline run the same Worker.process and are told apart only
\* by where they are: st, the item in hand and the handler running on it, and
\* by used: the task has finished an item before (kept while it is active).
NewWorker == [st |-> "created", item |-> POISON_PILL, h |-> 0, used |-> FALSE]

IsPoison(item) == item = POISON_PILL

DoneWorker == [st |-> "done", item |-> POISON_PILL, h |-> 0, used |-> FALSE]
WaitingWorker == [st |-> "get_wait", item |-> POISON_PILL, h |-> 0, used |-> FALSE]

\* (a Worker that acknowledges the item after its first handler)
ChainEndsAtFirst(h, n) == TRUE

\* Worker.process_one: "for task in self._tasks" has no task left after task h
ChainEnds(h, n) == h >= n

\* (a Worker that dequeues a poison pill and goes on)
AfterGetIgnoresPill(e) ==
    IF IsPoison(e.item)
    THEN WaitingWorker
    ELSE [st |-> "handling", item |-> e.item, h |-> 1, used |-> FALSE]

\* (a Worker that ends on whatever entry it dequeues)
AfterGetDropsItem(e) == DoneWorker

\* Worker.process_one after get() returned entry e, up to its next await.
AfterGet(e) ==
    IF IsPoison(e.item)
    THEN DoneWorker
    ELSE [st |-> "handling", item |-> e.item, h |-> 1, used |-> FALSE]

\* the task t, which is u after its get(): it is used when it took an item
\* after it has finished one
Taken(t, u) ==
    IF u.st = "handling" THEN [u EXCEPT !.used = t.used \/ t.st = "handling"] ELSE u

\* Worker.process: process_one has returned and is called again
NextRound(t) == [WaitingWorker EXCEPT !.used = TRUE]

\* the tasks of bag w whose st is in S, and their number
Only(w, S) == [t \in {x \in DOMAIN w : x.st \in S} |-> w[t]]
Count(w, S) == BagCardinality(Only(w, S))
Live(w) == Count(w, {"created", "get_wait", "handling"})
Finished(w) == Count(w, {"done", "failed"})
Copies(t, n) == IF n > 0 THEN [x \in {t} |-> n] ELSE EmptyBag
Replace(w, t, u) == (w (-) SetToBag({t})) (+) SetToBag({u})

\* ----------------------------------------------------------- Pipeline
\* (poison pills only for the tasks that have not ended)
KillWorkersLive(Q, w) == PutPoisons(Q, Live(w))

\* _kill_workers: one poison pill for each task of _worker_tasks
KillWorkers(Q, w) == PutPoisons(Q, BagCardinality(w))

\* (a stop() that does not look at the state)
StopEffectUnguarded(s, Q, r, w) ==
    [state |-> "stopping", Q |-> KillWorkers(Q, w), running |-> FALSE]

\* (a stop() that signals the Producer and the Workers in every state)
StopEffectAlwaysKills(s, Q, r, w) ==
    [state |-> IF s = "running" THEN "stopping" ELSE s,
     Q |-> KillWorkers(Q, w), running |-> FALSE]

\* Pipeline.stop, with Producer.stop
StopEffect(s, Q, r, w) ==
    IF s = "running"
    THEN [state |-> "stopping", Q |-> KillWorkers(Q, w), running |-> FALSE]
    ELSE [state |-> s, Q |-> Q, running |-> r]

\* (a setter that lets -1 through)
RejectedBelowMinusOne(n) == n < -1

\* the setter's test: if new_concurrency < 0: raise ValueError
Rejected(n) == n < 0

\* (a setter that goes on unless the Pipeline is stopped)
SetterReturnsWhenStopped(s) == s = "stopped"

\* the setter's test: if self._state != PipelineState.running: return
SetterReturns(s) == s # "running"

\* (a setter that enqueues one poison pill for each unit of change)
PillsForChangePerStep(change) == IF change < 0 THEN -change ELSE change

\* (a setter that enqueues one poison pill for any change)
PillsForChangeOneDown(change) == IF change # 0 THEN 1 ELSE 0

\* (a setter that enqueues nothing when the target rises)
PillsForChangeNoTrigger(change) == IF change < 0 THEN -change ELSE 0

\* the setter's poison pills for a change of the target
PillsForChange(change) ==
    IF change < 0 THEN -change ELSE IF change > 0 THEN 1 ELSE 0

\* Event.set resolves the future of a waiter only when the event was clear.
EventSetWakes(unp, pc, woken) == woken \/ (pc = "wait_unpaused" /\ ~unp)

\* (a loop that keeps one task, whatever the target)
SpawnSingle(w, c) == w (+) Copies(NewWorker, 1 - BagCardinality(w))

\* (a loop that creates a task on every pass, whatever the number of tasks)
SpawnOnEveryPass(w, c) == w (+) Copies(NewWorker, 1)

\* _process_one_worker's loop creating tasks while len(tasks) < concurrency
Spawn(w, c) == w (+) Copies(NewWorker, c - BagCardinality(w))

\* _process_one_worker up to its await
ProcessOneWorker(w, c, unp) ==
    LET w2 == Spawn(w, c)
    IN  [workers |-> w2,
         pc |-> IF BagCardinality(w2) > 0 THEN "wait_any"
                ELSE IF unp THEN "spin" ELSE "wait_unpaused",
         state |-> "running", error |-> "none"]

\* await self._producer_task, then self._state = stopped
AwaitProducer(w, ppc) ==
    IF ppc = "done"
    THEN [workers |-> w, pc |-> "returned", state |-> "stopped", error |-> "none"]
    ELSE IF ppc = "failed"
    THEN [workers |-> w, pc |-> "raised", state |-> "stopping", error |-> "producer"]
    ELSE [workers |-> w, pc |-> "wait_producer", state |-> "stopping", error |-> "none"]

\* (a shutdown that does not wait for the Workers)
ShutdownWaitsNever(w) == FALSE

\* _shutdown_processing: must it await asyncio.wait(self._worker_tasks)?
ShutdownWaits(w) == BagCardinality(w) > 0

\* _shutdown_processing up to its first await that suspends
ShutdownProcessing(w, ppc) ==
    IF ShutdownWaits(w)
    THEN [workers |-> w, pc |-> "wait_all", state |-> "stopping", error |-> "none"]
    ELSE AwaitProducer(w, ppc)

\* Pipeline.process from its while loop on
ControlLoop(s, w, c, unp, ppc) ==
    IF s = "running" THEN ProcessOneWorker(w, c, unp) ELSE ShutdownProcessing(w, ppc)

\* _warn_discarded_items logs the in-flight counter; no method of Pipeline,
\* Producer, Worker or ItemQueue calls it, so a run makes this many reports.
DiscardReports == 0

\* The event loop has control: no task is running without suspending.
LoopFree == mainPc # "spin"

\* ---------------------------------------------------------------- Init
\* a Pipeline with a chain of n tasks, after its construction
Constructed(n) ==
    /\ state = "stopped"
    /\ concurrency = 1
    /\ unpaused = FALSE
    /\ workers = EmptyBag
    /\ mainPc = "idle"
    /\ mainWoken = FALSE
    /\ mainError = "none"
    /\ polls = 0
    /\ prodPc = "none"
    /\ prodRunning = FALSE
    /\ prodItem = POISON_PILL
    /\ prodNotified = FALSE
    /\ srcNext = 0
    /\ queue = {}
    /\ entry_count = 0
    /\ unfinished = 0
    /\ enqueued = 0
    /\ completed = 0
    /\ aborted = 0
    /\ nSets = 0
    /\ nStops = 0
    /\ valueError = FALSE
    /\ seriesConc = 1
    /\ seriesMembers = {}
    /\ seriesPipes = [p \in 1..NumPipelines |-> 1]
    /\ seriesError = FALSE
    /\ restarts = 0
    /\ numTasks = n

\* the sessions whose items go through ResmonSleepTask: one for each Worker
Sessions == 1..MaxConc

\* no call of ResmonSleepTask.process has been made
ResmonIdle ==
    /\ semValue = Permits
    /\ sleepPc = [s \in Sessions |-> "idle"]
    /\ useLog = [s \in Sessions |-> FALSE]

\* ResmonSetupTask has made no ResourceMonitor (psutil is not there)
ResmonOff ==
    /\ resmonPresent = FALSE
    /\ minDisk = 0
    /\ minMemory = 0
    /\ diskFree = [p \in 1..NumPaths |-> 0]
    /\ memFree = 0
    /\ ResmonIdle

\* ResmonSetupTask has run: a ResourceMonitor with the minimums of the
\* arguments, or none; the resources are at some level
ResmonSetUp ==
    /\ resmonPresent \in BOOLEAN
    /\ minDisk \in 0..MaxFree
    /\ minMemory \in 0..MaxFree
    /\ diskFree \in [1..NumPaths -> 0..MaxFree]
    /\ memFree \in 0..MaxFree
    /\ ResmonIdle

\* the Pipeline has one task
Init == Constructed(1) /\ ResmonOff

\* the Pipeline has the longest chain of tasks
ChainInit == Constructed(NumTasks) /\ ResmonOff

\* a Pipeline and the ResourceMonitor of its application
ResmonInit == Constructed(1) /\ ResmonSetUp

\* ------------------------------------------------- the application's calls
\* Pipeline.stop()
Stop ==
    /\ LoopFree
    /\ nStops < MaxStops
    /\ LET r == StopEffect(state, [q |-> queue, ec |-> entry_count], prodRunning, workers)
       IN  /\ state' = r.state
           /\ queue' = r.Q.q
           /\ entry_count' = r.Q.ec
           /\ prodRunning' = r.running
    /\ nStops' = nStops + 1
    /\ UNCHANGED <<concurrency, unpaused, workers, mainVars, prodPc, prodItem,
                   prodNotified, srcNext, unfinished, enqueued, completed,
                   aborted, nSets, valueError>>
    /\ UNCHANGED <<seriesVars, resmonVars, restarts, numTasks>>

\* Pipeline.concurrency = n
SetConcurrency(n) ==
    /\ LoopFree
    /\ nSets < MaxSets
    /\ nSets' = nSets + 1
    /\ IF Rejected(n)
       THEN /\ valueError' = TRUE
            /\ UNCHANGED <<pipeVars, queue, entry_count, mainWoken>>
       ELSE /\ concurrency' = n
            /\ valueError' = FALSE
            /\ IF SetterReturns(state)
               THEN UNCHANGED <<state, unpaused, queue, entry_count, mainWoken>>
               ELSE LET Q == PutPoisons([q |-> queue, ec |-> entry_count],
                                        PillsForChange(n - concurrency))
                    IN  /\ queue' = Q.q
                        /\ entry_count' = Q.ec
                        /\ unpaused' = (n # 0)
                        /\ mainWoken' = IF n # 0
                                        THEN EventSetWakes(unpaused, mainPc, mainWoken)
                                        ELSE mainWoken
                        /\ UNCHANGED state
    /\ UNCHANGED <<workers, mainPc, mainError, polls, prodVars, unfinished, enqueued,
                   completed, aborted, nStops>>
    /\ UNCHANGED <<seriesVars, resmonVars, restarts, numTasks>>

\* ------------------------------------------------------ Pipeline.process
\* (a producer task that is created by the first process() only)
ProducerTaskOnce(starting, ppc) ==
    IF starting /\ ppc = "none" THEN "created" ELSE ppc

\* process(): the producer task is created when the state is stopped
ProducerTaskAtStart(starting, ppc) == IF starting THEN "created" ELSE ppc

\* a call of process(), up to its first suspension
ProcessCall ==
    /\ LET starting == state = "stopped"
           r == ControlLoop(IF starting THEN "running" ELSE state, workers, concurrency,
                            IF starting THEN TRUE ELSE unpaused,
                            ProducerTaskAtStart(starting, prodPc))
       IN  /\ state' = r.state
           /\ workers' = r.workers
           /\ mainPc' = r.pc
           /\ mainError' = r.error
           /\ prodPc' = ProducerTaskAtStart(starting, prodPc)
           /\ unpaused' = IF starting THEN TRUE ELSE unpaused
    /\ mainWoken' = FALSE
    /\ UNCHANGED <<concurrency, polls, prodRunning, prodItem, prodNotified, srcNext,
                   queueVars, histVars>>
    /\ UNCHANGED <<seriesVars, resmonVars, numTasks>>

\* the first call of process()
Process ==
    /\ mainPc = "idle"
    /\ ProcessCall
    /\ UNCHANGED restarts

\* process() called again after the earlier call has returned
Restart ==
    /\ mainPc = "returned"
    /\ restarts < MaxRestarts
    /\ restarts' = restarts + 1
    /\ ProcessCall

\* asyncio.wait(FIRST_COMPLETED) returned: every finished task is in done_tasks
MainWakeAny ==
    /\ mainPc = "wait_any"
    /\ Finished(workers) > 0
    /\ IF Count(workers, {"failed"}) > 0
       THEN \* task.result() raises; the tasks iterated before it were removed
            \E k \in 0..Count(workers, {"done"}) :
                /\ workers' = workers (-) Copies(DoneWorker, k)
                /\ mainPc' = "raised"
                /\ mainError' = "worker"
                /\ UNCHANGED state
       ELSE LET r == ControlLoop(state, workers (-) Only(workers, {"done"}),
                                 concurrency, unpaused, prodPc)
            IN  /\ workers' = r.workers
                /\ mainPc' = r.pc
                /\ mainError' = r.error
                /\ state' = r.state
    /\ mainWoken' = FALSE
    /\ UNCHANGED <<concurrency, unpaused, polls, prodVars, queueVars, histVars>>
    /\ UNCHANGED <<seriesVars, resmonVars, restarts, numTasks>>

\* self._unpaused_event.wait() returned
MainWakeUnpaused ==
    /\ mainPc = "wait_unpaused"
    /\ mainWoken
    /\ LET r == ControlLoop(state, workers, concurrency, unpaused, prodPc)
       IN  /\ workers' = r.workers
           /\ mainPc' = r.pc
           /\ mainError' = r.error
           /\ state' = r.state
    /\ mainWoken' = FALSE
    /\ UNCHANGED <<concurrency, unpaused, polls, prodVars, queueVars, histVars>>
    /\ UNCHANGED <<seriesVars, resmonVars, restarts, numTasks>>

\* _shutdown_processing: asyncio.wait(self._worker_tasks) returned
MainWakeAll ==
    /\ mainPc = "wait_all"
    /\ Live(workers) = 0
    /\ LET r == AwaitProducer(EmptyBag, prodPc)
       IN  /\ workers' = r.workers
           /\ mainPc' = r.pc
           /\ mainError' = r.error
           /\ state' = r.state
    /\ UNCHANGED <<concurrency, unpaused, mainWoken, polls, prodVars, queueVars, histVars>>
    /\ UNCHANGED <<seriesVars, resmonVars, restarts, numTasks>>

\* _shutdown_processing: await self._producer_task returned or raised
MainWakeProducer ==
    /\ mainPc = "wait_producer"
    /\ prodPc \in {"done", "failed"}
    /\ LET r == AwaitProducer(workers, prodPc)
       IN  /\ mainPc' = r.pc
           /\ mainError' = r.error
           /\ state' = r.state
    /\ UNCHANGED <<concurrency, unpaused, workers, mainWoken, polls, prodVars, queueVars,
                   histVars>>
    /\ UNCHANGED <<seriesVars, resmonVars, restarts, numTasks>>

\* Event.wait on a set event returns at once: the loop runs on without suspending
MainSpin ==
    /\ mainPc = "spin"
    /\ polls < MaxPolls
    /\ polls' = polls + 1
    /\ UNCHANGED <<pipeVars, workers, mainPc, mainWoken, mainError, prodVars, queueVars,
                   histVars>>
    /\ UNCHANGED <<seriesVars, resmonVars, restarts, numTasks>>

\* ---------------------------------------------------------------- Worker
\* ItemQueue.get returns the least entry and notifies; process_one goes on
Take(t) ==
    LET e == MinEntry(queue)
    IN  /\ queue' = QueueAfterGet(queue, e)
        /\ prodNotified' = NotifyAll(prodPc, prodNotified)
        /\ workers' = Replace(workers, t, Taken(t, AfterGet(e)))

\* the task of Worker.process starts and reaches its first get()
WorkerStart(t) ==
    /\ LoopFree
    /\ t.st = "created"
    /\ IF queue = {}
       THEN /\ workers' = Replace(workers, t, WaitingWorker)
            /\ UNCHANGED <<queue, prodNotified>>
       ELSE Take(t)
    /\ UNCHANGED <<pipeVars, mainVars, prodPc, prodRunning, prodItem, srcNext,
                   entry_count, unfinished, histVars>>
    /\ UNCHANGED <<seriesVars, resmonVars, restarts, numTasks>>

\* a Worker suspended in get() resumes when the queue holds an entry
WorkerGet(t) ==
    /\ LoopFree
    /\ t.st = "get_wait"
    /\ queue # {}
    /\ Take(t)
    /\ UNCHANGED <<pipeVars, mainVars, prodPc, prodRunning, prodItem, srcNext,
                   entry_count, unfinished, histVars>>
    /\ UNCHANGED <<seriesVars, resmonVars, restarts, numTasks>>

\* task.process(item) returns: the next handler, or item_done and the next get()
HandlerReturn(t) ==
    /\ LoopFree
    /\ t.st = "handling"
    /\ IF ~ChainEnds(t.h, numTasks)
       THEN /\ workers' = Replace(workers, t, [t EXCEPT !.h = @ + 1])
            /\ UNCHANGED <<queue, prodNotified, unfinished, completed>>
       ELSE /\ unfinished' = UnfinishedAfterDone(unfinished)
            /\ completed' = completed + 1
            /\ IF unfinished' < 0
               THEN \* assert self._unfinished_items >= 0
                    /\ workers' = Replace(workers, t, [t EXCEPT !.st = "failed"])
                    /\ UNCHANGED <<queue, prodNotified>>
               ELSE IF queue = {}
               THEN /\ workers' = Replace(workers, t, NextRound(t))
                    /\ prodNotified' = NotifyAll(prodPc, prodNotified)
                    /\ UNCHANGED queue
               ELSE Take(t)
    /\ UNCHANGED <<pipeVars, mainVars, prodPc, prodRunning, prodItem, srcNext,
                   entry_count, enqueued, aborted, nSets, nStops, valueError>>
    /\ UNCHANGED <<seriesVars, resmonVars, restarts, numTasks>>

\* task.process(item) raises: the Worker task ends with the error
HandlerRaise(t) ==
    /\ LoopFree
    /\ t.st = "handling"
    /\ workers' = Replace(workers, t, [t EXCEPT !.st = "failed"])
    /\ aborted' = aborted + 1
    /\ UNCHANGED <<pipeVars, mainVars, prodVars, queueVars, enqueued, completed, nSets,
                   nStops, valueError>>
    /\ UNCHANGED <<seriesVars, resmonVars, restarts, numTasks>>

\* -------------------------------------------------------------- Producer
\* _run_producer_wrapper after Producer.process returned: self.stop()
ProducerExit(Q) ==
    LET r == StopEffect(state, Q, FALSE, workers)
    IN  /\ state' = r.state
        /\ queue' = r.Q.q
        /\ entry_count' = r.Q.ec
        /\ prodRunning' = FALSE
        /\ prodPc' = "done"

\* put_item(item) from its loop test on, then Producer.process up to its next await
PutAttempt(item) ==
    IF QueueFull(queue)
    THEN /\ prodPc' = "put_wait"
         /\ prodItem' = item
         /\ prodNotified' = FALSE
         /\ UNCHANGED <<state, queue, entry_count, unfinished, enqueued, prodRunning>>
    ELSE /\ unfinished' = UnfinishedAfterPut(unfinished)
         /\ enqueued' = enqueued + 1
         /\ prodItem' = POISON_PILL
         /\ prodNotified' = FALSE
         /\ LET Q == PutItemNowait([q |-> queue, ec |-> entry_count], item)
            IN  IF ProducerLoops(prodRunning)
                THEN /\ prodPc' = "source"
                     /\ queue' = Q.q
                     /\ entry_count' = Q.ec
                     /\ UNCHANGED <<state, prodRunning>>
                ELSE ProducerExit(Q)

\* the task of _run_producer_wrapper starts: Producer.process up to get_item
ProducerStart ==
    /\ LoopFree
    /\ prodPc = "created"
    /\ prodRunning' = TRUE
    /\ prodPc' = "source"
    /\ UNCHANGED <<pipeVars, workers, mainVars, prodItem, prodNotified, srcNext,
                   queueVars, histVars>>
    /\ UNCHANGED <<seriesVars, resmonVars, restarts, numTasks>>

\* get_item returns the next item
SourceReturnItem ==
    /\ LoopFree
    /\ prodPc = "source"
    /\ srcNext < MaxItems
    /\ srcNext' = srcNext + 1
    /\ PutAttempt(srcNext + 1)
    /\ UNCHANGED <<concurrency, unpaused, workers, mainVars, completed, aborted,
                   nSets, nStops, valueError>>
    /\ UNCHANGED <<seriesVars, resmonVars, restarts, numTasks>>

\* get_item returns nothing
SourceReturnNone ==
    /\ LoopFree
    /\ prodPc = "source"
    /\ IF Exhausted(unfinished)
       THEN /\ ProducerExit([q |-> queue, ec |-> entry_count])
            /\ UNCHANGED prodNotified
       ELSE /\ prodPc' = "wfw_wait"
            /\ prodNotified' = FALSE
            /\ UNCHANGED <<state, queue, entry_count, prodRunning>>
    /\ UNCHANGED <<concurrency, unpaused, workers, mainVars, prodItem, srcNext, unfinished,
                   histVars>>
    /\ UNCHANGED <<seriesVars, resmonVars, restarts, numTasks>>

\* get_item raises: _run_producer_wrapper stops the Pipeline and re-raises
SourceRaise ==
    /\ LoopFree
    /\ prodPc = "source"
    /\ LET r == StopEffect(state, [q |-> queue, ec |-> entry_count], prodRunning, workers)
       IN  /\ state' = r.state
           /\ queue' = r.Q.q
           /\ entry_count' = r.Q.ec
           /\ prodRunning' = r.running
    /\ prodPc' = "failed"
    /\ UNCHANGED <<concurrency, unpaused, workers, mainVars, prodItem, prodNotified,
                   srcNext, unfinished, histVars>>
    /\ UNCHANGED <<seriesVars, resmonVars, restarts, numTasks>>

\* put_item resumes from Condition.wait and tests the queue again
ProducerWakePut ==
    /\ LoopFree
    /\ prodPc = "put_wait"
    /\ prodNotified
    /\ PutAttempt(prodItem)
    /\ UNCHANGED <<concurrency, unpaused, workers, mainVars, srcNext, completed,
                   aborted, nSets, nStops, valueError>>
    /\ UNCHANGED <<seriesVars, resmonVars, restarts, numTasks>>

\* wait_for_worker returns: Producer.process tests self._running
ProducerWakeWfw ==
    /\ LoopFree
    /\ prodPc = "wfw_wait"
    /\ prodNotified
    /\ prodNotified' = FALSE
    /\ IF ProducerLoops(prodRunning)
       THEN /\ prodPc' = "source"
            /\ UNCHANGED <<state, queue, entry_count, prodRunning>>
       ELSE ProducerExit([q |-> queue, ec |-> entry_count])
    /\ UNCHANGED <<concurrency, unpaused, workers, mainVars, prodItem, srcNext, unfinished,
                   histVars>>
    /\ UNCHANGED <<seriesVars, resmonVars, restarts, numTasks>>

\* ------------------------------------------------------ PipelineSeries
\* The Pipelines of the series are Pipelines that were constructed and are not
\* started: their setter assigns the target, or raises.

\* series.concurrency_pipelines.add(pipeline)
SeriesAddMember(p) ==
    /\ p \notin seriesMembers
    /\ seriesMembers' = seriesMembers \cup {p}
    /\ UNCHANGED <<seriesConc, seriesPipes, seriesError, engineVars, resmonVars>>

\* series.concurrency_pipelines.remove(pipeline)
SeriesRemoveMember(p) ==
    /\ p \in seriesMembers
    /\ seriesMembers' = seriesMembers \ {p}
    /\ UNCHANGED <<seriesConc, seriesPipes, seriesError, engineVars, resmonVars>>

\* series.pipelines[p].concurrency = n, of a Pipeline that is not started
SeriesPipelineSet(p, n) ==
    /\ seriesPipes' = IF Rejected(n) THEN seriesPipes
                      ELSE [seriesPipes EXCEPT ![p] = n]
    /\ seriesError' = Rejected(n)
    /\ UNCHANGED <<seriesConc, seriesMembers, engineVars, resmonVars>>

\* (a series setter that writes to every Pipeline of the tuple)
SeriesSetConcurrencyAll(n) ==
    /\ seriesConc' = n
    /\ seriesPipes' = [p \in 1..NumPipelines |->
                         IF ~Rejected(n) THEN n ELSE seriesPipes[p]]
    /\ seriesError' = Rejected(n)
    /\ UNCHANGED <<seriesMembers, engineVars, resmonVars>>

\* PipelineSeries.concurrency = n: the value is stored, then each member's
\* setter is called in the order of the tuple; the first one that raises ends
\* the loop.
SeriesSetConcurrency(n) ==
    /\ seriesConc' = n
    /\ seriesPipes' = [p \in 1..NumPipelines |->
                         IF p \in seriesMembers /\ ~Rejected(n)
                         THEN n ELSE seriesPipes[p]]
    /\ seriesError' = (seriesMembers # {} /\ Rejected(n))
    /\ UNCHANGED <<seriesMembers, engineVars, resmonVars>>

\* ------------------------------------------------------ ResmonSleepTask
\* check() returns None
NoShortage == 0

\* check() returns the ResourceInfo of memory (path None)
MemoryShort == NumPaths + 1

\* (a check that looks at the disks only)
CheckDisksOnly(minD, minM, disk, mem) ==
    IF minD # 0 /\ \E p \in 1..NumPaths : disk[p] < minD
    THEN CHOOSE p \in 1..NumPaths :
             disk[p] < minD /\ \A q \in 1..(p - 1) : ~(disk[q] < minD)
    ELSE NoShortage

\* ResourceMonitor.check over get_info: the first path whose free space is
\* below min_disk (when min_disk is set), else memory when it is below
\* min_memory (when min_memory is set), else None
Check(minD, minM, disk, mem) ==
    IF minD # 0 /\ \E p \in 1..NumPaths : disk[p] < minD
    THEN CHOOSE p \in 1..NumPaths :
             disk[p] < minD /\ \A q \in 1..(p - 1) : ~(disk[q] < minD)
    ELSE IF minM # 0 /\ mem < minM
    THEN MemoryShort
    ELSE NoShortage

\* _polling_sleep from a call of check() to its next await, then process():
\* the loop breaks when check() returns None, and the semaphore is released
\* by the call that acquired it; else asyncio.sleep(60).  (The counter of the
\* loop only selects what is logged.)
PollingSleep(s, log, sem) ==
    IF Check(minDisk, minMemory, diskFree, memFree) = NoShortage
    THEN /\ sleepPc' = [sleepPc EXCEPT ![s] = "returned"]
         /\ useLog' = [useLog EXCEPT ![s] = FALSE]
         /\ semValue' = IF log THEN sem + 1 ELSE sem
    ELSE /\ sleepPc' = [sleepPc EXCEPT ![s] = "sleeping"]
         /\ useLog' = [useLog EXCEPT ![s] = log]
         /\ semValue' = sem

\* ResmonSleepTask.process(session) is called: no monitor, return; else the
\* semaphore is acquired unless it is locked (acquire of a semaphore that is
\* not locked returns without suspending), then _polling_sleep
ResmonProcess(s) ==
    /\ sleepPc[s] = "idle"
    /\ IF ~resmonPresent
       THEN /\ sleepPc' = [sleepPc EXCEPT ![s] = "returned"]
            /\ UNCHANGED <<semValue, useLog>>
       ELSE IF semValue = 0
       THEN PollingSleep(s, FALSE, semValue)
       ELSE PollingSleep(s, TRUE, semValue - 1)
    /\ UNCHANGED <<resmonPresent, minDisk, minMemory, diskFree, memFree>>
    /\ UNCHANGED <<engineVars, seriesVars>>

\* asyncio.sleep(60) returns: the next pass of the loop of _polling_sleep
ResmonWake(s) ==
    /\ sleepPc[s] = "sleeping"
    /\ PollingSleep(s, useLog[s], semValue)
    /\ UNCHANGED <<resmonPresent, minDisk, minMemory, diskFree, memFree>>
    /\ UNCHANGED <<engineVars, seriesVars>>

\* the Worker calls the task for its next item
ResmonNextItem(s) ==
    /\ sleepPc[s] = "returned"
    /\ sleepPc' = [sleepPc EXCEPT ![s] = "idle"]
    /\ UNCHANGED <<resmonPresent, minDisk, minMemory, diskFree, memFree, semValue, useLog>>
    /\ UNCHANGED <<engineVars, seriesVars>>

\* the free space of a path changes
DiskChange(p, v) ==
    /\ diskFree[p] # v
    /\ diskFree' = [diskFree EXCEPT ![p] = v]
    /\ UNCHANGED <<resmonPresent, minDisk, minMemory, memFree, semValue, sleepPc, useLog>>
    /\ UNCHANGED <<engineVars, seriesVars>>

\* the available memory changes
MemoryChange(v) ==
    /\ memFree # v
    /\ memFree' = v
    /\ UNCHANGED <<resmonPresent, minDisk, minMemory, diskFree, semValue, sleepPc, useLog>>
    /\ UNCHANGED <<engineVars, seriesVars>>

\* ------------------------------------------------------ specifications
\* the steps of the tasks when every handler and every source call returns
TaskStep ==
    \/ Process
    \/ MainWakeAny
    \/ MainWakeUnpaused
    \/ MainWakeAll
    \/ MainWakeProducer
    \/ MainSpin
    \/ \E t \in BagToSet(workers) : WorkerStart(t)
    \/ \E t \in BagToSet(workers) : WorkerGet(t)
    \/ \E t \in BagToSet(workers) : HandlerReturn(t)
    \/ ProducerStart
    \/ SourceReturnItem
    \/ SourceReturnNone
    \/ ProducerWakePut
    \/ ProducerWakeWfw

Application ==
    \/ Stop
    \/ \E n \in -1..MaxConc : SetConcurrency(n)

Failure ==
    \/ \E t \in BagToSet(workers) : HandlerRaise(t)
    \/ SourceRaise

Next == TaskStep \/ Application \/ Failure

Spec == Init /\ [][Next]_vars

\* A PipelineSeries and its application.
SeriesNext ==
    \/ \E p \in 1..NumPipelines : SeriesAddMember(p)
    \/ \E p \in 1..NumPipelines : SeriesRemoveMember(p)
    \/ \E p \in 1..NumPipelines, n \in -1..MaxConc : SeriesPipelineSet(p, n)
    \/ \E n \in -1..MaxConc : SeriesSetConcurrency(n)

SeriesSpec == Init /\ [][SeriesNext]_vars

\* Every handler and every call of the item source returns a result.  The event
\* loop runs every task that is ready, and a handler that was called returns; the
\* item source may take for ever, and the application calls when it likes.
ReturnNext == TaskStep \/ Application

MainStep ==
    Process \/ MainWakeAny \/ MainWakeUnpaused \/ MainWakeAll \/ MainWakeProducer \/ MainSpin

WorkerStep ==
    \E t \in BagToSet(workers) : WorkerStart(t) \/ WorkerGet(t) \/ HandlerReturn(t)

ProducerStep == ProducerStart \/ ProducerWakePut \/ ProducerWakeWfw

FairSpec ==
    /\ Init
    /\ [][ReturnNext]_vars
    /\ WF_vars(MainStep)
    /\ WF_vars(WorkerStep)
    /\ WF_vars(ProducerStep)

\* A run to exhaustion: the target is 1 or more (the control loop then never
\* waits for the unpaused event), nobody calls stop(), every handler returns and
\* every call of the item source returns, an item or nothing.  The state leaves
\* running only when the Producer ends, so the control loop never has to wait
\* for the producer task.
RunStep ==
    \/ Process
    \/ MainWakeAny
    \/ MainWakeAll
    \/ \E t \in BagToSet(workers) : WorkerStart(t)
    \/ \E t \in BagToSet(workers) : WorkerGet(t)
    \/ \E t \in BagToSet(workers) : HandlerReturn(t)
    \/ ProducerStart
    \/ SourceReturnItem
    \/ SourceReturnNone
    \/ ProducerWakePut
    \/ ProducerWakeWfw

Configure == \E n \in 1..MaxConc : SetConcurrency(n)

RunNext == RunStep \/ Configure

SourceStep == SourceReturnItem \/ SourceReturnNone

RunSpec ==
    /\ Init
    /\ [][RunNext]_vars
    /\ WF_vars(MainStep)
    /\ WF_vars(WorkerStep)
    /\ WF_vars(ProducerStep)
    /\ WF_vars(SourceStep)

\* Runs with restarts: before and during the first run the application sets
\* targets of 1 or more and may call stop(), and it calls process() again when
\* a call has returned; handlers and the item source return.
FirstRunStop == restarts = 0 /\ Stop

FirstRunConfigure == restarts = 0 /\ Configure

RestartNext ==
    RunStep \/ MainWakeProducer \/ FirstRunConfigure \/ FirstRunStop \/ Restart

RestartSpec ==
    /\ Init
    /\ [][RestartNext]_vars
    /\ WF_vars(MainStep)
    /\ WF_vars(WorkerStep)
    /\ WF_vars(ProducerStep)
    /\ WF_vars(SourceStep)

\* Runs of a Pipeline with the longest chain of tasks: the application sets a
\* target of 1 or more before it calls process(); handlers and the item source
\* return or raise.
StartConfigure == mainPc = "idle" /\ Configure

ChainNext == RunStep \/ Failure \/ StartConfigure

ChainSpec == ChainInit /\ [][ChainNext]_vars

\* The end-to-end run of a Pipeline with the longest chain of tasks: the
\* application sets the largest target and then calls process(); the item
\* source yields all its items, and it yields nothing once they are out or
\* while an item is in flight; every handler returns and nobody calls stop().
ScenarioConfigure == mainPc = "idle" /\ concurrency # MaxConc /\ SetConcurrency(MaxConc)

ScenarioProcess == concurrency = MaxConc /\ Process

SourceEmpty == (srcNext = MaxItems \/ unfinished > 0) /\ SourceReturnNone

ScenarioNext ==
    \/ ScenarioConfigure
    \/ ScenarioProcess
    \/ MainWakeAny
    \/ MainWakeAll
    \/ \E t \in BagToSet(workers) : WorkerStart(t)
    \/ \E t \in BagToSet(workers) : WorkerGet(t)
    \/ \E t \in BagToSet(workers) : HandlerReturn(t)
    \/ ProducerStart
    \/ SourceReturnItem
    \/ SourceEmpty
    \/ ProducerWakePut
    \/ ProducerWakeWfw

ScenarioSpec == ChainInit /\ [][ScenarioNext]_vars

\* The calls of ResmonSleepTask.process of the Workers, and the resources.
ResmonNext ==
    \/ \E s \in Sessions : ResmonProcess(s)
    \/ \E s \in Sessions : ResmonWake(s)
    \/ \E s \in Sessions : ResmonNextItem(s)
    \/ \E p \in 1..NumPaths, v \in 0..MaxFree : DiskChange(p, v)
    \/ \E v \in 0..MaxFree : MemoryChange(v)

ResmonSpec == ResmonInit /\ [][ResmonNext]_vars

\* ------------------------------------------------------------- claims
PendingItems == {e \in queue : e.prio = ITEM_PRIORITY}
PendingPills == {e \in queue : e.prio = POISON_PRIORITY}

\* C1: get() returns entries in (priority, sequence) order: whenever an entry
\* leaves the queue, no stop signal stays behind a normal entry that leaves, and
\* no entry of the same priority class with a smaller sequence number stays
\* behind.
C1_DequeueOrder ==
    [][\A e \in queue \ queue' :
          /\ (e.prio = ITEM_PRIORITY => PendingPills = {})
          /\ \A f \in queue : f.prio = e.prio => e.seq <= f.seq]_vars

\* C1 witness: a normal entry is still pending although an entry enqueued after
\* it (a stop signal: put_item enqueues nothing behind a pending entry) has
\* already been returned by get().
C1_Witness ==
    \E e \in PendingItems :
        \E s \in (e.seq + 1)..(entry_count - 1) : \A f \in queue : f.seq # s

\* C2: the in-flight counter equals the normal items enqueued minus the
\* item_done acknowledgments, and is never negative.
C2_InFlightCounter ==
    /\ unfinished = enqueued - completed
    /\ unfinished >= 0

\* C2 witness: items were enqueued and some, not all, acknowledged.
C2_Witness == completed >= 1 /\ enqueued > completed

\* C3: put_item enqueues only into a queue with no pending entry; while it is
\* blocked and has not been woken an entry is pending; a blocked put_item that
\* resumes enqueues if the queue is empty and blocks again if it is not.
C3_PutItemBackpressure ==
    /\ [][(PendingItems' \ PendingItems # {}) => queue = {}]_vars
    /\ [](prodPc = "put_wait" /\ ~prodNotified => queue # {})
    /\ [][(prodPc = "put_wait" /\ prodNotified /\ ~prodNotified') =>
              IF queue = {}
              THEN enqueued' = enqueued + 1 /\ prodPc' # "put_wait"
              ELSE enqueued' = enqueued /\ prodPc' = "put_wait"]_vars

\* C3 witness: a get() has removed the last pending entry and woken the blocked
\* put_item, which is about to enqueue.
C3_Witness == prodPc = "put_wait" /\ prodNotified /\ queue = {}

\* C4: after stop() on a running Pipeline, with every handler and source call
\* returning, the Pipeline reaches stopped: so while it is stopping, a task
\* always has a step to take.
C4_StopTerminates == state = "stopping" => ENABLED TaskStep

\* C5: a handler's error reaches the caller of process() only after the
\* Pipeline has left running and every other Worker and the Producer have
\* exited.
C5_HandlerErrorAfterDrain ==
    mainError = "worker" =>
        /\ state # "running"
        /\ Live(workers) = 0
        /\ prodPc \in {"done", "failed"}

\* C6: when the item source raises, the Pipeline has performed stop(), and the
\* error reaches the caller of process() only when no Worker task is live.
C6_ProducerErrorAfterWorkers ==
    /\ prodPc = "failed" => state = "stopping"
    /\ mainError = "producer" => Live(workers) = 0

\* C6 witness: the Producer's error has reached the caller, after Workers ran.
C6_Witness == mainError = "producer" /\ mainPc = "raised" /\ completed >= 1

\* C7 as claimed: when the Producer's error reaches the caller, the in-flight
\* counter is zero and no normal entry is pending.
C7_AllEnqueuedFinished ==
    mainError = "producer" => unfinished = 0 /\ PendingItems = {}

\* C7 as amended: when the Producer's error reaches the caller, no Worker holds
\* an item, at most one normal entry is pending, and the in-flight counter is
\* the number of pending normal entries plus the items whose handler raised.
C7_DequeuedFinished ==
    mainError = "producer" =>
        /\ Count(workers, {"handling"}) = 0
        /\ Cardinality(PendingItems) <= 1
        /\ unfinished = Cardinality(PendingItems) + aborted

\* C7 witness: the Producer's error has reached the caller while a normal
\* entry, passed over by the stop signals, is still pending.
C7_Witness == mainError = "producer" /\ PendingItems # {} /\ completed >= 1

\* C8: once process() has ended and every Worker and the Producer have exited,
\* the Pipeline is not left in stopping.
C8_DrainedIsStopped ==
    (mainPc \in {"returned", "raised"} /\ Live(workers) = 0
        /\ prodPc \in {"done", "failed"}) => state # "stopping"

\* C9: if the Pipeline stays running (no stop, no exhaustion) the number of live
\* Workers eventually equals the target concurrency and stays equal.
C9_ConcurrencySettles ==
    <>[](state = "running") => <>[](Live(workers) = concurrency)

\* C9 witness: after two changes of the target made while running, the second
\* to a positive value, the live Workers equal the target and no stop signal is
\* left.
C9_Witness ==
    /\ state = "running" /\ nSets = 2 /\ concurrency > 0 /\ entry_count - enqueued >= 2
    /\ Live(workers) = concurrency /\ Finished(workers) = 0 /\ PendingPills = {}

\* C10: a running Pipeline with target concurrency zero and no Worker task has
\* its control loop suspended on the unpaused signal, and has not polled.
C10_IdleAtZero ==
    (state = "running" /\ concurrency = 0 /\ BagCardinality(workers) = 0
        /\ mainPc # "raised") => (mainPc = "wait_unpaused" /\ polls = 0)

\* C11: a negative value given to the Pipeline's concurrency setter is
\* rejected at once: the call raises and leaves the target, the queue (no stop
\* signal), the unpaused event and the state as they were; a call that does
\* not raise installs a target that is not negative.
C11_NegativeRejected ==
    [][nSets' # nSets =>
         IF valueError'
         THEN UNCHANGED <<pipeVars, workers, mainVars, prodVars, queueVars,
                          enqueued, completed, aborted, nStops>>
         ELSE concurrency' >= 0]_vars

C11_Witness ==
    /\ valueError
    /\ state = "running"
    /\ Live(workers) > 0
    /\ concurrency = 2

\* C12: a negative value given to the PipelineSeries' concurrency setter is
\* rejected with an error and changes nothing: the series' own value and the
\* targets of all its Pipelines stay as they were, with or without members.
C12_SeriesNegativeRejected ==
    [][(\E n \in -1..MaxConc : n < 0 /\ SeriesSetConcurrency(n)) =>
         /\ seriesError'
         /\ UNCHANGED <<seriesConc, seriesPipes>>]_vars

\* C13: when the item source yields finitely many items and then nothing, no
\* handler fails and the target is at least 1, the Producer enqueues the items
\* in the order the source yielded them and ends, the state goes from running
\* to stopping to stopped, and process() returns without an error.
C13_SourceOrder ==
    [][/\ \A e \in PendingItems' \ PendingItems :
            /\ e.item = enqueued + 1
            /\ enqueued' = enqueued + 1
       /\ state' # state => <<state, state'>> \in {<<"stopped", "running">>,
                                                   <<"running", "stopping">>,
                                                   <<"stopping", "stopped">>}]_vars

C13_Finished ==
    /\ state = "stopped"
    /\ mainPc = "returned"
    /\ mainError = "none"
    /\ prodPc = "done"
    /\ enqueued = srcNext
    /\ completed = enqueued

C13_RunsToExhaustion == C13_SourceOrder /\ <>[]C13_Finished

C13_Witness ==
    /\ C13_Finished
    /\ enqueued = MaxItems
    /\ concurrency >= 1

\* C14: lowering the target of a running Pipeline from c to c' enqueues exactly
\* c - c' stop signals; a Worker leaves the pool only by taking a stop signal
\* from the queue, and leaves its item only by completing it; and the pool
\* shrinks until the live Workers are as many as the target (unless the Pipeline
\* leaves running first).
C14_DecreaseStep ==
    [][/\ (nSets' # nSets /\ state = "running" /\ concurrency' < concurrency) =>
            /\ Cardinality(PendingPills') =
                   Cardinality(PendingPills) + (concurrency - concurrency')
            /\ PendingPills \subseteq PendingPills'
            /\ UNCHANGED <<workers, PendingItems, state>>
       /\ Live(workers') < Live(workers) =>
            /\ Live(workers') = Live(workers) - 1
            /\ Cardinality(PendingPills') = Cardinality(PendingPills) - 1
       /\ Count(workers', {"handling"}) < Count(workers, {"handling"}) =>
            completed' = completed + 1]_vars

C14_PoolShrinks ==
    (state = "running" /\ Live(workers) > concurrency)
        ~> (state # "running" \/ Live(workers) = concurrency)

C14_DecreaseSettles == C14_DecreaseStep /\ C14_PoolShrinks

C14_Witness ==
    /\ state = "running"
    /\ concurrency = 1
    /\ Count(workers, {"handling"}) = 2
    /\ Cardinality(PendingPills) = 1

\* C15: raising the target of a running Pipeline by any amount enqueues exactly
\* one stop signal; the pool grows only while it is below the target, and it
\* grows until the live Workers are as many as the target (unless the Pipeline
\* leaves running first), the Worker that took the signal being replaced.
C15_IncreaseStep ==
    [][/\ (nSets' # nSets /\ state = "running" /\ concurrency' > concurrency) =>
            /\ Cardinality(PendingPills') = Cardinality(PendingPills) + 1
            /\ PendingPills \subseteq PendingPills'
            /\ UNCHANGED <<workers, PendingItems, state>>
       /\ Live(workers') > Live(workers) =>
            /\ Live(workers) < concurrency
            /\ Live(workers') <= concurrency
            /\ state' = "running"]_vars

C15_PoolGrows ==
    (state = "running" /\ Live(workers) < concurrency)
        ~> (state # "running" \/ Live(workers) = concurrency)

C15_IncreaseSettles == C15_IncreaseStep /\ C15_PoolGrows

C15_Witness ==
    /\ state = "running"
    /\ concurrency = 2
    /\ Live(workers) = 0
    /\ Cardinality(PendingPills) = 1

\* C16: stop() in the running state, in one step, puts the state to stopping,
\* clears the Producer's running flag and enqueues exactly one stop signal for
\* each Worker task in _worker_tasks; a call of stop() by the application in
\* the running state is such a step.
C16_StopStep ==
    [][/\ (state = "running" /\ state' # "running") =>
            /\ state' = "stopping"
            /\ prodRunning' = FALSE
            /\ PendingPills \subseteq PendingPills'
            /\ Cardinality(PendingPills') =
                   Cardinality(PendingPills) + BagCardinality(workers)
            /\ workers' = workers
       /\ (nStops' # nStops /\ state = "running") =>
            /\ state' = "stopping"
            /\ UNCHANGED PendingItems]_vars

C16_Witness ==
    /\ state = "stopping"
    /\ nStops = 1
    /\ ~prodRunning
    /\ Count(workers, {"handling"}) = 1
    /\ Count(workers, {"done"}) = 1
    /\ Cardinality(PendingPills) = 2

\* C17: a call of stop() while the Pipeline is stopping or stopped changes
\* nothing and enqueues no stop signal, be it the application's call or the
\* call the producer wrapper makes when the Producer ends: only the first call
\* made while running has an effect.
C17_StopIdempotent ==
    [][/\ (nStops' # nStops /\ state # "running") =>
            UNCHANGED <<pipeVars, workers, mainVars, prodVars, queueVars,
                        enqueued, completed, aborted, nSets, valueError>>
       /\ (state # "running" /\ prodPc' # prodPc /\ prodPc' \in {"done", "failed"}) =>
            UNCHANGED <<state, concurrency, unpaused, workers, PendingPills>>]_vars

C17_Witness ==
    /\ nStops = 1
    /\ state = "stopping"
    /\ prodPc \in {"done", "failed"}
    /\ Count(workers, {"handling"}) = 2
    /\ Cardinality(PendingPills) = 2

\* C18: the state of the Pipeline changes only from stopped to running, from
\* running to stopping and from stopping to stopped.
C18_StateEdges ==
    [][state' # state =>
         \/ state = "stopped" /\ state' = "running"
         \/ state = "running" /\ state' = "stopping"
         \/ state = "stopping" /\ state' = "stopped"]_vars

C18_Witness ==
    /\ state = "stopped"
    /\ mainPc = "returned"
    /\ nStops = 1
    /\ completed >= 1
    /\ prodPc = "done"

\* C19: the Producer ends with its running flag still set (nobody told it to
\* stop) only in a step where the item source has just returned nothing and
\* the in-flight counter is zero, all enqueued items being completed.
C19_SelfStopWhenDrained ==
    [][(prodPc' = "done" /\ prodPc # "done" /\ prodRunning) =>
         /\ prodPc = "source"
         /\ UNCHANGED <<srcNext, enqueued, unfinished>>
         /\ unfinished = 0
         /\ enqueued = completed
         /\ PendingItems = {}]_vars

C19_Witness ==
    /\ prodPc = "done"
    /\ nStops = 0
    /\ aborted = 0
    /\ completed = MaxItems
    /\ unfinished = 0
    /\ state = "stopping"

\* C20: when the item source returns nothing while items are in flight, the
\* Producer suspends in wait_for_worker instead of ending; it is notified only
\* by a Worker's get() or item_done(), and when it resumes it polls the source
\* again (unless it was told to stop); in a Pipeline that stays running with a
\* positive target the Producer never stays suspended, in wait_for_worker or in
\* put_item, so an item the source then yields is enqueued.
C20_Repoll ==
    [][/\ (prodPc = "source" /\ prodPc' # "source" /\ srcNext' = srcNext
              /\ unfinished > 0) =>
            /\ prodPc' = "wfw_wait"
            /\ ~prodNotified'
       /\ (prodPc = "wfw_wait" /\ prodPc' # "wfw_wait") =>
            /\ prodNotified
            /\ prodPc' = IF prodRunning THEN "source" ELSE "done"
       /\ (prodNotified' /\ ~prodNotified) =>
            \/ Cardinality(queue') = Cardinality(queue) - 1
            \/ completed' = completed + 1]_vars

C20_Resumes ==
    (prodPc \in {"wfw_wait", "put_wait"} /\ state = "running" /\ concurrency > 0)
        ~> (prodPc = "source" \/ state # "running" \/ concurrency = 0)

C20_ProducerRepolls == C20_Repoll /\ C20_Resumes

C20_Witness ==
    /\ prodPc = "wfw_wait"
    /\ prodNotified
    /\ prodRunning
    /\ state = "running"
    /\ completed = 1
    /\ srcNext = 1

\* C21: a stop signal does not interrupt a Worker: an item that is dequeued is
\* taken into the handler chain, a Worker leaves an item only by completing it
\* (item_done) or by a handler's failure, and a Worker ends only in a step that
\* takes a stop signal from the queue, at a get(), or by a handler's failure.
C21_CooperativeStop ==
    [][/\ \A e \in PendingItems \ PendingItems' :
            \E t \in BagToSet(workers') : t.st = "handling" /\ t.item = e.item
       /\ Count(workers', {"handling"}) < Count(workers, {"handling"}) =>
            \/ completed' = completed + 1
            \/ aborted' = aborted + 1
       /\ Cardinality(PendingPills') < Cardinality(PendingPills) =>
            /\ Cardinality(PendingPills') = Cardinality(PendingPills) - 1
            /\ Count(workers', {"handling"}) < Count(workers, {"handling"}) =>
                   completed' = completed + 1
       /\ Live(workers') < Live(workers) =>
            \/ Cardinality(PendingPills') = Cardinality(PendingPills) - 1
            \/ aborted' = aborted + 1]_vars

C21_Witness ==
    /\ state = "stopping"
    /\ nStops = 1
    /\ Count(workers, {"handling"}) = 1
    /\ Count(workers, {"done"}) = 1
    /\ Cardinality(PendingPills) = 1
    /\ completed = 1

\* C22: setting the PipelineSeries' concurrency to n >= 0 makes n the series'
\* value and the target of every Pipeline that is in concurrency_pipelines at
\* that moment, raises nothing, and leaves the target of every other Pipeline,
\* and the member set, as they were.
C22_SeriesWriteThrough ==
    [][\A n \in 0..MaxConc :
         SeriesSetConcurrency(n) =>
           /\ seriesConc' = n
           /\ \A p \in seriesMembers : seriesPipes'[p] = n
           /\ \A p \in (1..NumPipelines) \ seriesMembers :
                  seriesPipes'[p] = seriesPipes[p]
           /\ ~seriesError'
           /\ UNCHANGED seriesMembers]_vars

C22_Witness ==
    /\ seriesConc = 2
    /\ seriesMembers = {1}
    /\ seriesPipes[1] = 2
    /\ seriesPipes[2] = 0
    /\ ~seriesError

\* C23: a Pipeline that has reached stopped can be started again: the new call
\* of process() takes it from stopped to running with a new producer task and
\* Workers up to the target, whatever the earlier run left in the queue; and
\* (nobody stopping the new run) the run ends in stopped, process() returning
\* without error, with every item the source yielded enqueued and completed.
C23_RestartStep ==
    [][restarts' # restarts =>
         /\ state = "stopped" /\ state' = "running"
         /\ prodPc = "done" /\ prodPc' = "created"
         /\ workers = EmptyBag
         /\ Live(workers') = concurrency
         /\ UNCHANGED queueVars]_vars

C23_RunEnded ==
    /\ state = "stopped"
    /\ mainPc = "returned"
    /\ mainError = "none"
    /\ prodPc = "done"
    /\ Live(workers) = 0
    /\ PendingItems = {}
    /\ unfinished = 0
    /\ enqueued = srcNext
    /\ completed = enqueued

C23_RestartRuns == C23_RestartStep /\ (restarts >= 1 ~> C23_RunEnded)

C23_Witness ==
    /\ restarts = 1
    /\ C23_RunEnded
    /\ nStops = 1
    /\ completed = MaxItems
    /\ PendingPills # {}

\* the new run starts with an item and a poison pill of the earlier run pending
C23_LeftoverWitness ==
    /\ restarts = 1
    /\ prodPc = "created"
    /\ PendingItems # {}
    /\ PendingPills # {}

\* C24: when process() ends with an error while enqueued items are not
\* completed, the number of discarded items has been reported.
C24_DiscardedReported ==
    (mainPc = "raised" /\ unfinished > 0) => DiscardReports > 0

\* the handler of the chain (1..numTasks) that is running on item i, or 0
Stage(w, i) ==
    IF \E t \in BagToSet(w) : t.st = "handling" /\ t.item = i
    THEN (CHOOSE t \in BagToSet(w) : t.st = "handling" /\ t.item = i).h
    ELSE 0

\* C25: for every item a Worker dequeues the handlers run in the order of the
\* chain, one at a time: the first starts when the item is dequeued, the next
\* starts in the step in which the one before returns, item_done is called once,
\* in the step in which the last handler returns, and a handler that raises
\* ends the chain for the item without a later handler and without item_done.
C25_ChainOrder ==
    [][/\ \A i \in 1..MaxItems :
            LET a == Stage(workers, i)
                b == Stage(workers', i)
            IN  a # b =>
                  \/ /\ a = 0 /\ b = 1
                     /\ \E e \in PendingItems \ PendingItems' : e.item = i
                  \/ /\ 0 < a /\ a < numTasks /\ b = a + 1
                     /\ UNCHANGED <<completed, unfinished, aborted>>
                  \/ /\ a = numTasks /\ b = 0
                     /\ completed' = completed + 1
                     /\ unfinished' = unfinished - 1
                     /\ UNCHANGED aborted
                  \/ /\ 0 < a /\ b = 0
                     /\ \E t \in BagToSet(workers') :
                            t.st = "failed" /\ t.item = i /\ t.h = a
                     /\ aborted' = aborted + 1
                     /\ UNCHANGED <<completed, unfinished>>
       /\ completed' # completed =>
            \E i \in 1..MaxItems :
                Stage(workers, i) = numTasks /\ Stage(workers', i) = 0]_vars

C25_Witness ==
    /\ numTasks >= 2
    /\ \E t \in BagToSet(workers) : t.st = "handling" /\ t.h = numTasks
    /\ \E t \in BagToSet(workers) : t.st = "failed" /\ t.h = 1
    /\ completed = 0

\* poison pills put on the queue so far: every put takes a sequence number
PillsPut == entry_count - enqueued

\* C26: each stop signal is taken by exactly one Worker, which ends in that
\* step and does nothing afterwards; a Worker ends only by taking a stop signal
\* or by a handler's failure; so the Workers that have ended normally are never
\* more than the stop signals taken from the queue.
C26_PillStep ==
    [][workers' # workers =>
         LET done == Count(workers, {"done"})
             doneAfter == Count(workers', {"done"})
             pills == Cardinality(PendingPills)
             pillsAfter == Cardinality(PendingPills')
         IN  /\ pillsAfter < pills =>
                  /\ pillsAfter = pills - 1
                  /\ doneAfter = done + 1
                  /\ Live(workers') = Live(workers) - 1
                  /\ UNCHANGED PendingItems
             /\ doneAfter > done => pillsAfter = pills - 1
             /\ doneAfter < done =>
                  /\ Count(workers', {"get_wait", "handling"}) =
                         Count(workers, {"get_wait", "handling"})
                  /\ UNCHANGED <<queue, completed>>
             /\ Live(workers') < Live(workers) =>
                  \/ doneAfter = done + 1
                  \/ Count(workers', {"failed"}) = Count(workers, {"failed"}) + 1]_vars

C26_OnePillPerExit ==
    /\ C26_PillStep
    /\ [][Cardinality(PendingPills') < Cardinality(PendingPills) =>
             workers' # workers]_vars
    /\ [](Count(workers, {"done"}) <= PillsPut - Cardinality(PendingPills))

C26_Witness ==
    /\ Count(workers, {"done"}) = 2
    /\ PendingPills = {}
    /\ PillsPut = 2
    /\ completed >= 1

\* the poison pills a step has to put: one for each worker task when the state
\* leaves running, and the setter's pills for a change of the target
PillsDue ==
    IF state = "running" /\ state' = "stopping" THEN BagCardinality(workers)
    ELSE IF nSets' # nSets /\ state = "running" /\ ~valueError'
    THEN PillsForChange(concurrency' - concurrency)
    ELSE 0

\* C27: putting a stop signal never waits: all the signals a step has to put
\* are in the queue after that step, entries pending or not; and stop signals
\* never touch the in-flight counter, neither when they are put nor when a
\* Worker dequeues one: the counter changes only by the items enqueued and the
\* items acknowledged in the step.
C27_PillsFrame ==
    [][/\ Cardinality(PendingPills' \ PendingPills) = PillsDue
       /\ PillsPut' = PillsPut + PillsDue
       /\ unfinished' - unfinished = (enqueued' - enqueued) - (completed' - completed)
       /\ Cardinality(PendingPills') # Cardinality(PendingPills) =>
            /\ enqueued' # enqueued => unfinished' = unfinished + 1
            /\ completed' = completed /\ enqueued' = enqueued =>
                   unfinished' = unfinished]_vars

\* a stop signal was put behind a pending item, and a Worker took it
C27_Witness ==
    /\ PendingItems # {}
    /\ PillsPut = 2
    /\ Cardinality(PendingPills) = 1
    /\ Count(workers, {"done"}) = 1
    /\ unfinished = 2
    /\ completed = 0

\* C28: every entry put on the queue, item or stop signal, gets a sequence
\* number greater than those of all entries put before: the new entries of a
\* step take exactly the numbers from the old counter up to the new one, the
\* counter never decreases, and no two entries share a number; also when a
\* put_item that was blocked puts its item after stop signals were put.
C28_SeqStep ==
    [][/\ entry_count' >= entry_count
       /\ {e.seq : e \in queue' \ queue} = entry_count .. (entry_count' - 1)
       /\ Cardinality(queue' \ queue) = entry_count' - entry_count]_vars

C28_SeqIncreasing ==
    /\ C28_SeqStep
    /\ [](\A e \in queue : e.seq >= 0 /\ e.seq < entry_count)
    /\ [](\A e, f \in queue : e.seq = f.seq => e = f)

\* an item was put after a stop signal: its number is the latest, and more
\* entries than items came before it
C28_Witness ==
    \E e \in PendingItems :
        /\ e.seq = entry_count - 1
        /\ e.seq > e.item - 1
        /\ e.item = MaxItems

\* the Producer is suspended on the condition, in wait_for_worker or put_item
ProducerWaits == prodPc \in {"wfw_wait", "put_wait"}

\* a Worker's get() returned or its item_done() ran in this step
GetOrDone == Cardinality(queue') < Cardinality(queue) \/ completed' # completed

\* C29: a caller suspended in wait_for_worker or in put_item resumes only
\* after a get() or item_done() made while it was waiting; every get() and
\* item_done() made while it waits schedules it to resume; and no wakeup is
\* lost: a Producer that waits in wait_for_worker without a notification still
\* has an item in flight whose get() or item_done() is to come.
C29_WakeStep ==
    [][/\ (ProducerWaits /\ (prodPc' # prodPc \/ (prodNotified /\ ~prodNotified'))) =>
            prodNotified
       /\ (~ProducerWaits /\ ProducerWaits') => ~prodNotified'
       /\ (ProducerWaits /\ GetOrDone) => (prodNotified' /\ prodPc' = prodPc)
       /\ (prodNotified' /\ ~prodNotified) => (ProducerWaits /\ GetOrDone)]_vars

C29_NoLostWakeup ==
    /\ C29_WakeStep
    /\ []((prodPc = "wfw_wait" /\ ~prodNotified) => unfinished > 0)
    /\ []((prodPc = "put_wait" /\ ~prodNotified) => queue # {})

C29_Witness ==
    /\ prodPc = "put_wait"
    /\ prodNotified
    /\ PendingPills # {}
    /\ Count(workers, {"handling"}) = 1

\* C30: whenever the Pipeline is running, the unpaused event is set exactly
\* when the target concurrency is not zero.
C30_UnpausedIffNonZero ==
    state = "running" => (unpaused <=> concurrency # 0)

\* C31: a call of the concurrency setter with a value of 0 or more, made while
\* the Pipeline is stopped or stopping, changes the stored target and nothing
\* else: no poison pill is enqueued (queue and entry counter are unchanged),
\* the unpaused event and the wake-up of the control loop are untouched, and
\* the worker tasks, the state, the Producer and the in-flight counter are
\* unchanged.
C31_SetterStep ==
    (nSets' # nSets /\ state # "running" /\ ~valueError') =>
        /\ concurrency' \in 0..MaxConc
        /\ UNCHANGED <<state, unpaused, workers, mainVars, prodVars, queueVars>>
        /\ UNCHANGED <<enqueued, completed, aborted, nStops>>

C31_NotRunningFrame == [][C31_SetterStep]_vars

\* the one call of the setter was made in stopping: the target is 2 and the only
\* entry ever enqueued is the poison pill of stop() for the one worker task
C31_Witness ==
    /\ state = "stopping"
    /\ nSets = 1 /\ nStops = 1
    /\ concurrency = 2
    /\ enqueued = 0 /\ entry_count = 1

\* C32: worker tasks are created only by the control loop of a running
\* Pipeline and only while the task set is smaller than the target.  A step
\* that creates tasks (the number of tasks not yet started grows) does not
\* start in stopping, ends in running, had fewer tasks than the target before
\* the first creation, and leaves a task set no larger than the target; in
\* stopping and in a Pipeline that was stopped by a run no task is waiting to
\* start that was created there.
Created(w) == Count(w, {"created"})

C32_SpawnStep ==
    Created(workers') > Created(workers) =>
        /\ state # "stopping"
        /\ state' = "running"
        /\ BagCardinality(workers') - (Created(workers') - Created(workers)) < concurrency'
        /\ BagCardinality(workers') <= concurrency'
        /\ concurrency' = concurrency

C32_SpawnBelowTarget == [][C32_SpawnStep]_vars

\* the control loop has replaced a task that ended and raised the task set to a
\* target of 2: a task is still to start while another has handled an item
C32_Witness ==
    /\ state = "running"
    /\ concurrency = 2
    /\ completed >= 1
    /\ Created(workers) >= 1
    /\ BagCardinality(workers) = 2

\* C33: once stop() has cleared the Producer's running flag (the Producer task
\* has started and the flag is clear), the Producer calls the item source no
\* more: no step of the Producer ends in a new call of get_item.  A call that
\* was in progress may return one more item, which is enqueued (at once or
\* after the blocked put_item resumes), and the Producer then ends.  The flag
\* stays clear, and a further stop() changes nothing of the Producer.
ProducerStopped == ~prodRunning /\ prodPc \notin {"none", "created"}

SourceCalled == prodPc' = "source" /\ (prodPc # "source" \/ srcNext' # srcNext)

C33_StoppedStep ==
    ProducerStopped =>
        /\ ~SourceCalled
        /\ ~prodRunning'
        /\ prodPc \in {"put_wait", "wfw_wait", "done", "failed"} => srcNext' = srcNext
        /\ prodPc' # prodPc => prodPc' \in {"put_wait", "wfw_wait", "done", "failed"}
        /\ nStops' # nStops => UNCHANGED <<prodVars, queueVars, state>>

C33_NoRequestAfterStop == [][C33_StoppedStep]_vars

\* stop() was called during the Producer's iteration for item 1: the item was
\* enqueued all the same, it is not finished, and the Producer has ended
C33_Witness ==
    /\ nStops = 1
    /\ prodPc = "done"
    /\ ~prodRunning
    /\ enqueued = 1 /\ completed = 0 /\ aborted = 0

\* C34 (as stated): in the run of a source with two items at concurrency 2 no
\* Worker takes a second item: the two items go to two different Workers.
C34_EachWorkerOneItem ==
    \A t \in BagToSet(workers) : ~(t.st = "handling" /\ t.used)

\* C34 (amended): in that run the control loop keeps as many worker tasks as the
\* target, every item is in the hands of at most one Worker and is pending,
\* in hand or acknowledged, nothing raises, and when process() has returned
\* every item of the source has been processed once and acknowledged.  Which
\* Worker takes which item is not fixed: a Worker that has finished an item
\* may take the next one.
InHand(w, i) ==
    BagCardinality([t \in {x \in DOMAIN w : x.st = "handling" /\ x.item = i} |-> w[t]])

C34_ItemsSharedOut ==
    /\ (state = "running" /\ mainPc = "wait_any") => BagCardinality(workers) = MaxConc
    /\ \A i \in 1..MaxItems :
          /\ InHand(workers, i) <= 1
          /\ InHand(workers, i) = 1 =>
                i <= enqueued /\ \A e \in PendingItems : e.item # i
    /\ enqueued = completed + Count(workers, {"handling"}) + Cardinality(PendingItems)
    /\ mainPc # "raised"
    /\ mainPc = "returned" =>
          state = "stopped" /\ completed = MaxItems /\ unfinished = 0 /\ queue = {}

\* the run at the largest target has ended with every item acknowledged
C34_Witness ==
    /\ mainPc = "returned"
    /\ state = "stopped"
    /\ completed = MaxItems
    /\ concurrency = MaxConc

\* C35: the queue never holds more than one normal entry, whatever the number
\* of poison pills in it and however the Producer and the Workers interleave;
\* a normal entry that is pending is the last entry that put_item enqueued.
C35_OnePendingItem ==
    /\ Cardinality(PendingItems) <= 1
    /\ \A e \in PendingItems : e.item = enqueued

\* a normal entry is pending with poison pills around it while the Producer is
\* blocked in put_item with the next item
C35_Witness ==
    /\ Cardinality(PendingItems) = 1
    /\ Cardinality(PendingPills) >= 2
    /\ prodPc = "put_wait"

\* C36: while no handler has raised, the in-flight counter is the number of
\* items in the hands of Workers plus the pending normal entries, so it is at
\* most the number of worker tasks that have not ended plus one.
C36_BoundedHandoff ==
    aborted = 0 =>
        /\ unfinished = Count(workers, {"handling"}) + Cardinality(PendingItems)
        /\ unfinished <= Live(workers) + 1

\* the bound is met: every task that has not ended has an item in hand and one
\* more item is pending
C36_Witness ==
    /\ aborted = 0
    /\ Live(workers) >= 1
    /\ unfinished = Live(workers) + 1

\* C37: an item is in the hands of at most one Worker, it gets there only by
\* being dequeued, and it is enqueued once; and when process() has returned
\* with no call of stop() by the application (the Producer has found the
\* source empty with nothing in flight, and nothing has raised), the state is
\* stopped, every item that was enqueued has been acknowledged, no handler has
\* raised, no Worker has an item in hand, the in-flight counter is 0 and no
\* normal entry is pending.
C37_HandOutStep ==
    \A i \in 1..MaxItems :
        /\ InHand(workers', i) > InHand(workers, i) =>
              /\ InHand(workers, i) = 0
              /\ \E e \in PendingItems \ PendingItems' : e.item = i
        /\ (\E e \in PendingItems' \ PendingItems : e.item = i) =>
              i = enqueued' /\ enqueued' = enqueued + 1

C37_EndOfRun ==
    /\ \A i \in 1..MaxItems :
          /\ InHand(workers, i) <= 1
          /\ InHand(workers, i) = 1 => i <= enqueued /\ \A e \in PendingItems : e.item # i
    /\ completed + aborted <= enqueued
    /\ (mainPc = "returned" /\ nStops = 0) =>
          /\ state = "stopped"
          /\ mainError = "none"
          /\ completed = enqueued
          /\ aborted = 0
          /\ Count(workers, {"handling"}) = 0
          /\ unfinished = 0
          /\ PendingItems = {}

C37_EachItemOnce == [][C37_HandOutStep]_vars /\ []C37_EndOfRun

\* a run has ended by exhaustion after it has processed every item of the source
C37_Witness ==
    /\ mainPc = "returned"
    /\ nStops = 0
    /\ completed = MaxItems

\* C38: when the Pipeline has reached stopped (process() has returned), no
\* poison pill is left in the queue.
C38_NoPillLeft ==
    (state = "stopped" /\ mainPc = "returned") => PendingPills = {}

\* C39: a call of ResmonSleepTask.process returns only in a step whose check
\* finds no resource below its minimum (no path with free space below a set
\* min_disk, memory not below a set min_memory), or when there is no
\* ResourceMonitor; a call that checks while a resource is short sleeps, and a
\* sleeping call can always wake and check again; and a call that has returned
\* holds no semaphore: the value of the semaphore plus the calls that hold it
\* is the value it was created with.
ResourceShort ==
    \/ \E p \in 1..NumPaths : diskFree[p] < minDisk
    \/ memFree < minMemory

Holders == {s \in Sessions : useLog[s]}

C39_Step ==
    \A s \in Sessions :
        /\ (sleepPc[s] # "returned" /\ sleepPc'[s] = "returned") =>
              /\ ~resmonPresent \/ ~ResourceShort
              /\ ~useLog'[s]
              /\ semValue' = semValue + (IF useLog[s] THEN 1 ELSE 0)
        /\ (sleepPc'[s] # sleepPc[s] /\ sleepPc[s] = "idle" /\ resmonPresent
               /\ ResourceShort) =>
              sleepPc'[s] = "sleeping"
        /\ (sleepPc[s] = "sleeping" /\ sleepPc'[s] # "sleeping") =>
              sleepPc'[s] = "returned"

C39_State ==
    /\ semValue + Cardinality(Holders) = Permits
    /\ semValue >= 0
    /\ \A s \in Sessions :
          /\ useLog[s] => sleepPc[s] = "sleeping"
          /\ sleepPc[s] = "sleeping" => resmonPresent /\ ENABLED ResmonWake(s)

C39_ReturnsWhenCleared == [][C39_Step]_vars /\ []C39_State

\* a call that held the semaphore while it slept has returned and released it,
\* while another call, which found the semaphore locked, still sleeps
C39_Witness ==
    /\ resmonPresent
    /\ semValue = Permits
    /\ \E s, t \in Sessions :
          /\ sleepPc[s] = "returned"
          /\ sleepPc[t] = "sleeping" /\ ~useLog[t]

====
